---- MODULE Spec2Model ----
(***************************************************************************)
(* The question-answering pipeline of backend/graph.py:                    *)
(*   router -> retriever -> synthesizer -> compliance_checker              *)
(*                ^                               |                        *)
(*                +------- should_retry ----------+--> END -> response     *)
(* One run of ask_question is modelled: the shared AgentState dict, the     *)
(* node the graph is about to execute, and the answers of the external     *)
(* capabilities (chat model, vector store) drawn from small sets.          *)
(*                                                                         *)
(* Text is modelled as a sequence of one-character strings, a verification *)
(* payload as a sequence of lines.  Confidence values are in hundredths    *)
(* (0.7 is 70, 1.0 is 100).                                                *)
(***************************************************************************)
EXTENDS Integers, Sequences, FiniteSets, TLC

(* Largest number of passages held by the vector store. *)
MaxIndex == 11

(***************************************************************************)
(* Python string helpers: str.upper, str.lower, str.strip, `in`.           *)
(***************************************************************************)
LowerLetters ==
  <<"a","b","c","d","e","f","g","h","i","j","k","l","m",
    "n","o","p","q","r","s","t","u","v","w","x","y","z">>

UpperLetters ==
  <<"A","B","C","D","E","F","G","H","I","J","K","L","M",
    "N","O","P","Q","R","S","T","U","V","W","X","Y","Z">>

UpperChar(c) ==
  IF \E i \in 1..26 : LowerLetters[i] = c
  THEN UpperLetters[CHOOSE i \in 1..26 : LowerLetters[i] = c]
  ELSE c

LowerChar(c) ==
  IF \E i \in 1..26 : UpperLetters[i] = c
  THEN LowerLetters[CHOOSE i \in 1..26 : UpperLetters[i] = c]
  ELSE c

Upper(s) == [i \in 1..Len(s) |-> UpperChar(s[i])]

Lower(s) == [i \in 1..Len(s) |-> LowerChar(s[i])]

IsSpace(c) == c \in {" ", "\n", "\t"}

RECURSIVE LStrip(_)
LStrip(s) ==
  IF s # <<>> /\ IsSpace(Head(s)) THEN LStrip(Tail(s)) ELSE s

RECURSIVE RStrip(_)
RStrip(s) ==
  IF s # <<>> /\ IsSpace(s[Len(s)])
  THEN RStrip(SubSeq(s, 1, Len(s) - 1))
  ELSE s

Strip(s) == RStrip(LStrip(s))

(* keyword in query_lower *)
Contains(s, kw) ==
  \E i \in 1..(Len(s) - Len(kw) + 1) : SubSeq(s, i, i + Len(kw) - 1) = kw

(***************************************************************************)
(* agents/router.py                                                        *)
(***************************************************************************)
LOOKUP == <<"L","O","O","K","U","P">>

COMPARE == <<"C","O","M","P","A","R","E">>

CHECKLIST == <<"C","H","E","C","K","L","I","S","T">>

EXPLAIN == <<"E","X","P","L","A","I","N">>

valid_types == {LOOKUP, COMPARE, CHECKLIST, EXPLAIN}

(* All regulations we know about. *)
KNOWN_REGULATIONS ==
  << "SR 11-7", "NIST AI RMF", "ISO 42001", "NAIC Model Bulletin",
     "Colorado SB21-169" >>

(* The keyword table of detect_regulations, in dict (insertion) order. *)
patterns ==
  << [regulation |-> "SR 11-7",
      keywords |-> << <<"s","r"," ","1","1","-","7">>,
                      <<"s","r","1","1","-","7">>,
                      <<"s","r","1","1","0","7">>,
                      <<"s","r"," ","1","1","0","7">> >>],
     [regulation |-> "NIST AI RMF",
      keywords |-> << <<"n","i","s","t">>,
                      <<"a","i"," ","r","m","f">>,
                      <<"a","i"," ","1","0","0","-","1">>,
                      <<"a","i","1","0","0">> >>],
     [regulation |-> "ISO 42001",
      keywords |-> << <<"i","s","o"," ","4","2","0","0","1">>,
                      <<"i","s","o","4","2","0","0","1">> >>],
     [regulation |-> "NAIC Model Bulletin",
      keywords |-> << <<"n","a","i","c">>,
                      <<"m","o","d","e","l"," ","b","u","l","l","e","t","i","n">> >>],
     [regulation |-> "Colorado SB21-169",
      keywords |-> << <<"c","o","l","o","r","a","d","o">>,
                      <<"s","b","2","1","-","1","6","9">>,
                      <<"s","b"," ","2","1","-","1","6","9">>,
                      <<"s","b","2","1","1","6","9">> >> ] >>

(* The loop over patterns.items(): found after the entries from..end. *)
RECURSIVE DetectFrom(_, _, _)
DetectFrom(query_lower, from, found) ==
  IF from > Len(patterns) THEN found
  ELSE LET entry == patterns[from]
           hit == \E j \in 1..Len(entry.keywords) :
                    Contains(query_lower, entry.keywords[j])
       IN DetectFrom(query_lower, from + 1,
                     IF hit THEN Append(found, entry.regulation) ELSE found)

(* Variant: the keywords are looked up in the query as typed. *)
detect_regulations_case_sensitive(query) == DetectFrom(query, 1, <<>>)

detect_regulations(query) == DetectFrom(Lower(query), 1, <<>>)

(* Variant: the label is validated as returned, without strip and upper. *)
ClassifyLabelAsReturned(content) ==
  IF content \notin valid_types THEN EXPLAIN ELSE content

(* query_type = response.content.strip().upper(), then the validation. *)
ClassifyLabel(content) ==
  LET query_type == Upper(Strip(content))
  IN IF query_type \notin valid_types THEN EXPLAIN ELSE query_type

(* Questions a caller may ask. *)
Queries ==
  { <<"S","R","1","1","-","7">>,
    <<"s","r"," ","1","1","-","7"," ","v"," ","N","I","S","T">>,
    <<"r","i","s","k">>,
    <<"n","a","i","c"," ","I","S","O","4","2","0","0","1"," ","n","i","s","t">> }

(* Texts the classifier may return. *)
Labels ==
  { LOOKUP,
    <<"c","o","m","p","a","r","e">>,
    <<" ","C","h","e","c","k","l","i","s","t","\n">>,
    EXPLAIN,
    <<"M","A","Y","B","E">>,
    <<"L","O","O","K","U","P",".">>,
    <<>> }

(***************************************************************************)
(* ingestion/retriever.py: the vector store.  A passage is a Document with *)
(* its regulation and page metadata; the store holds the passages ranked   *)
(* by similarity to the query of the run, most similar first.              *)
(***************************************************************************)
None == "None"

IndexPatterns ==
  { <<"SR 11-7">>,
    <<"NIST AI RMF", "SR 11-7">>,
    <<"Unknown", "ISO 42001", "NAIC Model Bulletin">> }

(* A text is known by the chunk it comes from and how many of its        *)
(* characters are kept: the whole chunk, or the prefix a slice leaves.    *)
Text(chunk, n) == [chunk |-> chunk, length |-> n]

(* text[:n] *)
Slice(text, n) ==
  [text EXCEPT !.length = IF text.length < n THEN text.length ELSE n]

(* Sizes of the chunks the splitter produces (at most chunk_size = 800). *)
ContentLengths == <<120, 300, 301, 800>>

(* A store of n passages whose regulations cycle through pat. *)
MakeIndex(n, pat) ==
  [i \in 1..n |->
     [regulation |-> pat[((i - 1) % Len(pat)) + 1], page |-> i,
      page_content |-> Text(i, ContentLengths[((i - 1) % 4) + 1])]]

Indexes == { MakeIndex(n, pat) : n \in 0..MaxIndex, pat \in IndexPatterns }

Take(s, k) == SubSeq(s, 1, IF Len(s) < k THEN Len(s) ELSE k)

RECURSIVE FilterDocs(_, _)
FilterDocs(docs, reg) ==
  IF docs = <<>> THEN <<>>
  ELSE IF Head(docs).regulation = reg
       THEN <<Head(docs)>> \o FilterDocs(Tail(docs), reg)
       ELSE FilterDocs(Tail(docs), reg)

(* vectorstore.similarity_search(query, k=k[, filter=filter_dict]) *)
similarity_search(store, k, filter_dict) ==
  IF filter_dict # None
  THEN Take(FilterDocs(store, filter_dict), k)
  ELSE Take(store, k)

(***************************************************************************)
(* agents/retriever.py                                                     *)
(***************************************************************************)
Max(a, b) == IF a > b THEN a ELSE b

SearchCall(q, k, filter_dict) == [query |-> q, k |-> k, filter |-> filter_dict]

(* Variant: LOOKUP filters to the first regulation whenever one or more *)
(* were detected.                                                       *)
PrimaryCallsLookupAny(q, qt, regs) ==
  IF qt = LOOKUP /\ Len(regs) >= 1
  THEN << SearchCall(q, 5, regs[1]) >>
  ELSE IF qt = COMPARE /\ Len(regs) >= 2
  THEN LET per_regulation == Max(5, 10 \div Len(regs))
       IN [i \in 1..Len(regs) |-> SearchCall(q, per_regulation, regs[i])]
  ELSE IF qt = COMPARE
  THEN << SearchCall(q, 10, None) >>
  ELSE << SearchCall(q, 7, None) >>

(* Variant: LOOKUP filters only for the first regulation of the catalog. *)
PrimaryCallsFirstCatalogEntryOnly(q, qt, regs) ==
  IF qt = LOOKUP /\ Len(regs) = 1 /\ regs = << KNOWN_REGULATIONS[1] >>
  THEN << SearchCall(q, 5, regs[1]) >>
  ELSE IF qt = COMPARE /\ Len(regs) >= 2
  THEN LET per_regulation == Max(5, 10 \div Len(regs))
       IN [i \in 1..Len(regs) |-> SearchCall(q, per_regulation, regs[i])]
  ELSE IF qt = COMPARE
  THEN << SearchCall(q, 10, None) >>
  ELSE << SearchCall(q, 7, None) >>

(* The if/elif chain choosing the searches of a pass. *)
PrimaryCalls(q, qt, regs) ==
  IF qt = LOOKUP /\ Len(regs) = 1
  THEN << SearchCall(q, 5, regs[1]) >>
  ELSE IF qt = COMPARE /\ Len(regs) >= 2
  THEN LET per_regulation == Max(5, 10 \div Len(regs))
       IN [i \in 1..Len(regs) |-> SearchCall(q, per_regulation, regs[i])]
  ELSE IF qt = COMPARE
  THEN << SearchCall(q, 10, None) >>
  ELSE << SearchCall(q, 7, None) >>

(* Variant: the results of each search are put in front of the earlier *)
(* ones.                                                              *)
RECURSIVE RunCallsPrepending(_, _)
RunCallsPrepending(store, cs) ==
  IF cs = <<>> THEN <<>>
  ELSE RunCallsPrepending(store, Tail(cs))
         \o similarity_search(store, Head(cs).k, Head(cs).filter)

(* results of the searches, in call order (results.extend). *)
RECURSIVE RunCalls(_, _)
RunCalls(store, cs) ==
  IF cs = <<>> THEN <<>>
  ELSE similarity_search(store, Head(cs).k, Head(cs).filter)
         \o RunCalls(store, Tail(cs))

(* Variant: the widening test forgets that the pass must be a retry. *)
BroadensOnAnyPass(rc, results) == Len(results) < 3

(* Variant: a retry widens below 5 passages. *)
BroadensBelowFive(rc, results) == rc > 0 /\ Len(results) < 5

(* if retry_count > 0 and len(results) < 3 *)
Broadens(rc, results) == rc > 0 /\ Len(results) < 3

(* The searches after the primary ones. *)
RetryCalls(q, rc, results) ==
  IF Broadens(rc, results) THEN << SearchCall(q, 10, None) >> ELSE <<>>

(* Every search a pass issues, in call order. *)
PassCalls(st, vs) ==
  LET calls == PrimaryCalls(st.query, st.query_type, st.target_regulations)
  IN calls \o RetryCalls(st.query, st.retry_count, RunCalls(vs, calls))

(* The value assigned to state["retrieved_docs"]. *)
RetrievedDocs(store, q, rc, results) ==
  IF Broadens(rc, results)
  THEN RunCalls(store, RetryCalls(q, rc, results))
  ELSE results

(***************************************************************************)
(* agents/compliance_checker.py: JSON values and the payload parser.       *)
(* A decoded value carries its Python type; a dict lists the keys it has   *)
(* (a field whose key is absent holds a filler that is never read).        *)
(***************************************************************************)
Num(n) == [type |-> "number", value |-> n]

JStr == [type |-> "str", value |-> 0]

JNull == [type |-> "null", value |-> 0]

Dict(ks, cl, conf, sm) ==
  [type |-> "dict", keys |-> ks, claims |-> cl, confidence |-> conf,
   summary |-> sm]

EmptyDict == Dict({}, <<>>, JNull, "")

JList == [type |-> "list", keys |-> {}, claims |-> <<>>, confidence |-> JNull,
          summary |-> ""]

AllKeys == {"claims", "confidence", "summary"}

Claim(st) ==
  [text |-> "claim", status |-> st,
   source |-> IF st = "SUPPORTED" THEN "SR 11-7, Page 1" ELSE "null"]

Supported == << Claim("SUPPORTED") >>

Unsupported == << Claim("UNSUPPORTED") >>

Mixed == << Claim("SUPPORTED"), Claim("PARTIAL") >>

(* Claim lists and confidence numbers (in hundredths) the verifier model *)
(* may write into a complete object.                                     *)
ClaimsAndConfidence ==
  { << <<>>, 70 >>,
    << Supported, 100 >>,
    << Supported, 69 >>,
    << Supported, 150 >>,
    << Unsupported, 0 >>,
    << Unsupported, 100 >>,
    << Mixed, 50 >>,
    << Mixed, 71 >> }

(* Values json.loads can produce from a payload. *)
JsonDocs ==
  { Dict(AllKeys, cc[1], Num(cc[2]), "n of m claims are supported") :
      cc \in ClaimsAndConfidence }
  \cup { Dict({"claims", "summary"}, Supported, JNull, "ok"),
         Dict({"confidence"}, <<>>, Num(50), ""),
         Dict(AllKeys, <<>>, JStr, "high"),
         Dict(AllKeys, <<>>, JNull, "none"),
         JList }

(* Lines of a payload. *)
Fence == [kind |-> "fence", doc |-> JNull]

JsonLine(d) == [kind |-> "json", doc |-> d]

(* A whole fenced payload written on one line: ```json {...} ``` *)
FencedOnOneLine(d) == [kind |-> "fenced_json", doc |-> d]

Junk == [kind |-> "junk", doc |-> JNull]

Blank == [kind |-> "blank", doc |-> JNull]

GoodDoc == Dict(AllKeys, Supported, Num(100), "n of m claims are supported")

LowDoc == Dict(AllKeys, Unsupported, Num(0), "n of m claims are supported")

(* Texts the verifier model may return. *)
Payloads ==
  { << JsonLine(d) >> : d \in JsonDocs }
  \cup { << Fence, JsonLine(d), Fence >> : d \in {GoodDoc, LowDoc, JList} }
  \cup { <<>>,
         << Junk >>,
         << JsonLine(GoodDoc), Junk >>,
         << Blank, JsonLine(LowDoc), Blank >>,
         << FencedOnOneLine(GoodDoc) >>,
         << Fence, JsonLine(GoodDoc) >>,
         << Fence, Junk, Fence >>,
         << Fence, Fence, JsonLine(GoodDoc), Fence, Fence >> }

(* str.strip() on a text held as lines: blank lines at both ends go. *)
RECURSIVE StripLines(_)
StripLines(lines) ==
  IF lines # <<>> /\ Head(lines).kind = "blank" THEN StripLines(Tail(lines))
  ELSE IF lines # <<>> /\ lines[Len(lines)].kind = "blank"
  THEN StripLines(SubSeq(lines, 1, Len(lines) - 1))
  ELSE lines

(* text.startswith("```") *)
StartsWithFence(text) ==
  text # <<>> /\ Head(text).kind \in {"fence", "fenced_json"}

(* Variant: only the opening fence line is dropped. *)
DropFirstOnly(lines) == SubSeq(lines, 2, Len(lines))

(* "\n".join(lines[1:-1]) *)
DropFirstAndLast(lines) == SubSeq(lines, 2, Len(lines) - 1)

(* The text handed to json.loads. *)
Unwrapped(response_text) ==
  LET text == StripLines(response_text)
  IN IF StartsWithFence(text) THEN DropFirstAndLast(text) ELSE text

(* json.loads accepts a text that is one JSON document between whitespace. *)
JsonLoadable(text) ==
  LET body == StripLines(text)
  IN Len(body) = 1 /\ body[1].kind = "json"

JsonLoads(text) == StripLines(text)[1].doc

(* Variant: the fallback is an empty dict. *)
DefaultVerificationEmpty == EmptyDict

DefaultVerification ==
  Dict(AllKeys, <<>>, Num(50), "Could not parse verification response")

parse_verification_response(response_text) ==
  LET text == Unwrapped(response_text)
  IN IF JsonLoadable(text) THEN JsonLoads(text) ELSE DefaultVerification

(***************************************************************************)
(* The agents as functions of the AgentState they are handed.              *)
(***************************************************************************)
(* Variant: the router counts as an attempt too. *)
router_agent_counting(st, content) ==
  [st EXCEPT !.query_type = ClassifyLabel(content),
             !.target_regulations = detect_regulations(st.query),
             !.retry_count = st.retry_count + 1]

router_agent(st, content) ==
  [st EXCEPT !.query_type = ClassifyLabel(content),
             !.target_regulations = detect_regulations(st.query)]

(* Variant: the retriever consumes the regulation list it iterates over. *)
retriever_agent_consuming(st, vs) ==
  LET results == RunCalls(vs, PrimaryCalls(st.query, st.query_type,
                                           st.target_regulations))
  IN [st EXCEPT !.retrieved_docs =
                   RetrievedDocs(vs, st.query, st.retry_count, results),
                !.retry_count = st.retry_count + 1,
                !.target_regulations = <<>>]

(* Variant: the pass counts itself twice. *)
retriever_agent_counting_twice(st, vs) ==
  LET results == RunCalls(vs, PrimaryCalls(st.query, st.query_type,
                                           st.target_regulations))
  IN [st EXCEPT !.retrieved_docs =
                   RetrievedDocs(vs, st.query, st.retry_count, results),
                !.retry_count = st.retry_count + 2]

retriever_agent(st, vs) ==
  LET results == RunCalls(vs, PrimaryCalls(st.query, st.query_type,
                                           st.target_regulations))
  IN [st EXCEPT !.retrieved_docs =
                   RetrievedDocs(vs, st.query, st.retry_count, results),
                !.retry_count = st.retry_count + 1]

(* Variant: the synthesizer keeps only the passage it cites first. *)
synthesizer_agent_pruning(st, content) ==
  [st EXCEPT !.answer = content,
             !.retrieved_docs = Take(st.retrieved_docs, 1)]

synthesizer_agent(st, content) == [st EXCEPT !.answer = content]

compliance_checker_agent(st, content) ==
  [st EXCEPT !.verification = parse_verification_response(content)]

(***************************************************************************)
(* graph.py                                                                *)
(***************************************************************************)
ConfidenceThreshold == 70

MaxRetryCount == 2

(* dict.get(key, default) *)
DictGet(d, key, default) == IF key \in d.keys THEN d[key] ELSE default

(* state.get("verification", {}).get(...) raises on a value without .get,  *)
(* and confidence < 0.7 raises on a value that is not a number.            *)
GateRaises(st) ==
  \/ st.verification.type # "dict"
  \/ DictGet(st.verification, "confidence", Num(100)).type # "number"

(* Variant: a missing confidence counts as 0, as it does when packaging. *)
should_retry_missing_is_zero(st) ==
  IF GateRaises(st) THEN "raise"
  ELSE LET confidence == DictGet(st.verification, "confidence", Num(0)).value
           retry_count == st.retry_count
       IN IF confidence < ConfidenceThreshold /\ retry_count <= MaxRetryCount
          THEN "retry"
          ELSE "end"

(* Variant: the budget test is retry_count <= 3. *)
should_retry_thrice(st) ==
  IF GateRaises(st) THEN "raise"
  ELSE LET confidence == DictGet(st.verification, "confidence", Num(100)).value
           retry_count == st.retry_count
       IN IF confidence < ConfidenceThreshold /\ retry_count <= MaxRetryCount + 1
          THEN "retry"
          ELSE "end"

(* Variant: the budget test is retry_count < 2. *)
should_retry_once(st) ==
  IF GateRaises(st) THEN "raise"
  ELSE LET confidence == DictGet(st.verification, "confidence", Num(100)).value
           retry_count == st.retry_count
       IN IF confidence < ConfidenceThreshold /\ retry_count < MaxRetryCount
          THEN "retry"
          ELSE "end"

should_retry(st) ==
  IF GateRaises(st) THEN "raise"
  ELSE LET confidence == DictGet(st.verification, "confidence", Num(100)).value
           retry_count == st.retry_count
       IN IF confidence < ConfidenceThreshold /\ retry_count <= MaxRetryCount
          THEN "retry"
          ELSE "end"

(* Variant: a retry re-enters the graph at its entry point. *)
EdgeAfterCheckerToRouter(decision) ==
  IF decision = "retry" THEN "router" ELSE "END"

(* The conditional edge table {"retry": "retriever", "end": END}. *)
EdgeAfterChecker(decision) ==
  IF decision = "retry" THEN "retriever" ELSE "END"

PreviewLength == 300

(* Variant: the content is passed on whole. *)
format_sources_untruncated(docs) ==
  [i \in 1..Len(docs) |->
     [regulation |-> docs[i].regulation, page |-> docs[i].page,
      content |-> docs[i].page_content]]

format_sources(docs) ==
  [i \in 1..Len(docs) |->
     [regulation |-> docs[i].regulation, page |-> docs[i].page,
      content |-> Slice(docs[i].page_content, PreviewLength)]]

(* The dict ask_question returns. *)
Response(st) ==
  [answer |-> st.answer,
   sources |-> format_sources(st.retrieved_docs),
   confidence |-> DictGet(st.verification, "confidence", Num(0)),
   query_type |-> st.query_type,
   verification |-> st.verification]

initial_state(q) ==
  [query |-> q, query_type |-> <<>>, target_regulations |-> <<>>,
   retrieved_docs |-> <<>>, answer |-> "", verification |-> EmptyDict,
   retry_count |-> 0]

Answers == {"answer A", "answer B"}

(***************************************************************************)
(* State of one run of ask_question.                                       *)
(*   state     the AgentState dict threaded through the nodes              *)
(*   store     the vector store, ranked for the query of the run           *)
(*   pc        the node or step the graph executes next                    *)
(*   response  the content of the last chat-model response                 *)
(*   searches  the similarity searches of the last retriever pass          *)
(*   trace     the nodes that have completed, in order                     *)
(*   failure   why the run raised, if it did                               *)
(*   result    the dict returned to the caller                             *)
(*   prompts   what the last synthesizer and the last checker call were    *)
(*             given to read, and what each stored                         *)
(*   request   the body of the HTTP request the run serves                 *)
(*   http_status  the status of the HTTP response, once sent               *)
(*   call      a function applied on its own: its argument and result      *)
(*   runs      the threads serving concurrent requests, each with its own  *)
(*             AgentState and position                                     *)
(*   llm       the module globals _llm: the client held (0 is None) and    *)
(*             how many clients were constructed                           *)
(***************************************************************************)
VARIABLES state, store, pc, response, searches, trace, failure, result,
          request, http_status, call, runs, llm, prompts

vars == <<state, store, pc, response, searches, trace, failure, result,
          request, http_status, call, runs, llm, prompts>>

(* What a step of the pipeline leaves alone: the HTTP exchange around the *)
(* run, the record of a function called on its own, and the threads and  *)
(* module globals of concurrent runs.                                    *)
outside == <<request, http_status, call, runs, llm>>

(* The modules that keep a chat-model client in a global _llm. *)
Components == {"router", "synthesizer", "compliance_checker"}

(* No thread is serving a request. *)
NoRuns == <<>>

(* _llm = None in every module. *)
NoLlm == [c \in Components |-> [client |-> 0, constructed |-> 0]]

(* The body of a POST /api/ask: the keys it has and the question, if any. *)
Body(ks, q) == [keys |-> ks, question |-> q]

(* No response sent yet. *)
Pending == 0

NoCall == [fn |-> "none", arg |-> <<>>, ret |-> <<>>, ret2 |-> <<>>]

NoResponse == [node |-> "none", label |-> <<>>, answer |-> "", payload |-> <<>>]

NoSearches ==
  [entry |-> 0, primary |-> <<>>, primary_results |-> <<>>, retry |-> <<>>,
   first |-> [calls |-> <<>>, docs |-> <<>>]]

(* No chat-model call has been made yet. *)
NoPrompts ==
  [synthesizer |-> [pass |-> 0, context |-> <<>>, stored |-> ""],
   compliance_checker |-> [pass |-> 0, sources |-> <<>>, answer |-> "",
                           stored |-> EmptyDict]]

NoResult ==
  [answer |-> "", sources |-> <<>>, confidence |-> JNull,
   query_type |-> <<>>, verification |-> EmptyDict]

Init ==
  /\ state \in { initial_state(q) : q \in Queries }
  /\ store \in Indexes
  /\ pc = "router"
  /\ response = NoResponse
  /\ searches = NoSearches
  /\ trace = <<>>
  /\ failure = "none"
  /\ result = NoResult
  /\ request = Body({"question"}, state.query)
  /\ http_status = Pending
  /\ call = NoCall
  /\ prompts = NoPrompts
  /\ runs = NoRuns
  /\ llm = NoLlm

(* Variant: the exception is caught and the graph ends with what it has. *)
NodeRaisesSwallowed(n) ==
  /\ pc = n
  /\ pc' = "END"
  /\ failure' = "capability"
  /\ UNCHANGED <<outside, prompts, state, store, response, searches, trace,
                 result>>

(* A capability call (chat model or vector store) raises inside node n. *)
NodeRaises(n) ==
  /\ pc = n
  /\ pc' = "FAILED"
  /\ failure' = "capability"
  /\ UNCHANGED <<outside, prompts, state, store, response, searches, trace,
                 result>>

RouterNode ==
  /\ pc = "router"
  /\ \E content \in Labels :
       /\ state' = router_agent(state, content)
       /\ response' = [NoResponse EXCEPT !.node = "router", !.label = content]
  /\ trace' = Append(trace, "router")
  /\ pc' = "retriever"
  /\ UNCHANGED <<outside, prompts, store, searches, failure, result>>

RouterNodeRaises == NodeRaises("router")

RetrieverNode ==
  /\ pc = "retriever"
  /\ state' = retriever_agent(state, store)
  /\ LET calls == PrimaryCalls(state.query, state.query_type,
                               state.target_regulations)
         results == RunCalls(store, calls)
     IN searches' = [entry |-> state.retry_count,
                     primary |-> calls,
                     primary_results |-> results,
                     retry |-> RetryCalls(state.query, state.retry_count,
                                          results),
                     first |-> IF state.retry_count = 0
                               THEN [calls |-> PassCalls(state, store),
                                     docs |-> state'.retrieved_docs]
                               ELSE searches.first]
  /\ trace' = Append(trace, "retriever")
  /\ pc' = "synthesizer"
  /\ UNCHANGED <<outside, prompts, store, response, failure, result>>

RetrieverNodeRaises == NodeRaises("retriever")

SynthesizerNode ==
  /\ pc = "synthesizer"
  /\ \E content \in Answers :
       /\ state' = synthesizer_agent(state, content)
       /\ response' = [NoResponse EXCEPT !.node = "synthesizer",
                                         !.answer = content]
  /\ prompts' = [prompts EXCEPT
                   !.synthesizer = [pass |-> state.retry_count,
                                    context |-> state.retrieved_docs,
                                    stored |-> state'.answer]]
  /\ trace' = Append(trace, "synthesizer")
  /\ pc' = "compliance_checker"
  /\ UNCHANGED <<outside, store, searches, failure, result>>

SynthesizerNodeRaises == NodeRaises("synthesizer")

ComplianceCheckerNode ==
  /\ pc = "compliance_checker"
  /\ \E content \in Payloads :
       /\ state' = compliance_checker_agent(state, content)
       /\ response' = [NoResponse EXCEPT !.node = "compliance_checker",
                                         !.payload = content]
  /\ prompts' = [prompts EXCEPT
                   !.compliance_checker = [pass |-> state.retry_count,
                                           sources |-> state.retrieved_docs,
                                           answer |-> state.answer,
                                           stored |-> state'.verification]]
  /\ trace' = Append(trace, "compliance_checker")
  /\ pc' = "should_retry"
  /\ UNCHANGED <<outside, store, searches, failure, result>>

ComplianceCheckerNodeRaises == NodeRaises("compliance_checker")

(* The conditional edge: should_retry returns and the graph follows it. *)
ShouldRetryEdge ==
  /\ pc = "should_retry"
  /\ should_retry(state) # "raise"
  /\ pc' = EdgeAfterChecker(should_retry(state))
  /\ UNCHANGED <<outside, prompts, state, store, response, searches, trace,
                 failure, result>>

(* should_retry raises AttributeError or TypeError out of app.invoke. *)
ShouldRetryRaises ==
  /\ pc = "should_retry"
  /\ should_retry(state) = "raise"
  /\ pc' = "FAILED"
  /\ failure' = "should_retry"
  /\ UNCHANGED <<outside, prompts, state, store, response, searches, trace,
                 result>>

(* app.invoke returned: ask_question packages the response. *)
AskQuestionReturns ==
  /\ pc = "END"
  /\ result' = Response(state)
  /\ pc' = "RETURNED"
  /\ UNCHANGED <<outside, prompts, state, store, response, searches, trace,
                 failure>>

Next ==
  \/ RouterNode
  \/ RouterNodeRaises
  \/ RetrieverNode
  \/ RetrieverNodeRaises
  \/ SynthesizerNode
  \/ SynthesizerNodeRaises
  \/ ComplianceCheckerNode
  \/ ComplianceCheckerNodeRaises
  \/ ShouldRetryEdge
  \/ ShouldRetryRaises
  \/ AskQuestionReturns

Spec == Init /\ [][Next]_vars

TypeOK ==
  /\ pc \in {"router", "retriever", "synthesizer", "compliance_checker",
             "should_retry", "END", "RETURNED", "FAILED"}
  /\ state.retry_count \in 0..3
  /\ failure \in {"none", "capability", "should_retry"}

(***************************************************************************)
(* Vocabulary of the properties.                                           *)
(***************************************************************************)
Executions(n) == Cardinality({ i \in DOMAIN trace : trace[i] = n })

Done == pc \in {"END", "RETURNED"}

(* The verification holds a number as confidence and it is below x. *)
ConfidenceBelow(x) ==
  /\ state.verification.type = "dict"
  /\ "confidence" \in state.verification.keys
  /\ state.verification.confidence.type = "number"
  /\ state.verification.confidence.value < x

(* The last chat-model response is a verifier payload that does not decode *)
(* once one layer of wrapping is stripped.                                 *)
PayloadUndecodable ==
  /\ response.node = "compliance_checker"
  /\ ~JsonLoadable(Unwrapped(response.payload))

(* The node expected at position i of a run: the router, then passes of    *)
(* retriever, synthesizer, compliance_checker.                             *)
StageAt(i) ==
  IF i = 1 THEN "router"
  ELSE <<"retriever", "synthesizer", "compliance_checker">>[((i - 2) % 3) + 1]

(***************************************************************************)
(* C1: whatever confidence the verifier returns, the retriever executes at *)
(* most 3 times in a run, up to and including DONE.                        *)
(***************************************************************************)
C1_AtMostThreeRetrievals == Executions("retriever") <= 3

(* A run that ended after three passes with confidence still below 0.7. *)
C1_Witness ==
  /\ pc = "RETURNED"
  /\ Executions("retriever") = 3
  /\ ConfidenceBelow(70)

(***************************************************************************)
(* C2 (as claimed): after every verification the graph goes to the         *)
(* retriever if and only if the confidence is below 0.7 and retry_count is *)
(* at most 2, and to END in every other case.                              *)
(***************************************************************************)
C2_GateRule ==
  [][pc = "should_retry" =>
       IF ConfidenceBelow(70) /\ state.retry_count <= 2
       THEN pc' = "retriever"
       ELSE pc' = "END"]_vars

(***************************************************************************)
(* C3 (as claimed): a run in which no capability call fails reaches DONE:  *)
(* it never ends as a failure, whatever the label, the payload and the     *)
(* number of passages.                                                     *)
(***************************************************************************)
C3_FailsOnlyOnCapabilityFailure == pc = "FAILED" => failure = "capability"

(***************************************************************************)
(* C4: the nodes executed are the router once, then passes of retriever,   *)
(* synthesizer, compliance_checker in that order; a run that is done has   *)
(* executed one or more whole passes.                                      *)
(***************************************************************************)
C4_StageOrder ==
  /\ \A i \in DOMAIN trace : trace[i] = StageAt(i)
  /\ Done => Len(trace) >= 4 /\ (Len(trace) - 1) % 3 = 0

(* A finished run with a retry in it. *)
C4_Witness == pc = "RETURNED" /\ Len(trace) = 7

(***************************************************************************)
(* C5: once the router has completed, no step changes the query, the       *)
(* query type or the detected regulations.                                 *)
(***************************************************************************)
C5_RouteOutputsFrozen ==
  [][pc # "router" =>
       /\ state'.query = state.query
       /\ state'.query_type = state.query_type
       /\ state'.target_regulations = state.target_regulations]_vars

(* A run with regulations detected that went through all three passes. *)
C5_Witness ==
  /\ pc = "RETURNED"
  /\ Len(trace) = 10
  /\ Len(state.target_regulations) >= 2
  /\ state.query_type = COMPARE

(***************************************************************************)
(* C6: a payload that does not decode after one layer of wrapping is       *)
(* stripped makes the verifier store exactly the default result (no        *)
(* claims, confidence 0.5, the parse-failure summary) and nothing raises.  *)
(***************************************************************************)
C6_ParseFailureDefault ==
  (\/ PayloadUndecodable
   \/ /\ response.node = "compliance_checker"
      /\ response.payload \in
           { <<>>, << Junk >>, << JsonLine(GoodDoc), Junk >>,
             << Fence, Junk, Fence >>, << FencedOnOneLine(GoodDoc) >>,
             << Fence, Fence, JsonLine(GoodDoc), Fence, Fence >> })
  => /\ state.verification.type = "dict"
     /\ state.verification.keys = {"claims", "confidence", "summary"}
     /\ state.verification.claims = <<>>
     /\ state.verification.confidence = Num(50)
     /\ state.verification.summary = "Could not parse verification response"
     /\ failure # "should_retry"

(* The gate is about to read the result of a payload that did not decode. *)
C6_Witness ==
  /\ pc = "should_retry"
  /\ PayloadUndecodable
  /\ response.payload = << Fence, Junk, Fence >>

(***************************************************************************)
(* C7 (as claimed): whenever the payload fails to decode, the transition   *)
(* after that verification is to the retriever.                            *)
(***************************************************************************)
C7_ParseFailureAlwaysRetries ==
  [][pc = "should_retry" /\ PayloadUndecodable => pc' = "retriever"]_vars

(***************************************************************************)
(* C7 (amended): when the payload fails to decode, the transition after    *)
(* that verification is to the retriever if retry_count is at most 2 (the  *)
(* first and second pass) and to END after the third pass.                 *)
(***************************************************************************)
C7_ParseFailureRetriesWithinBudget ==
  [][pc = "should_retry" /\ PayloadUndecodable =>
       IF state.retry_count <= 2 THEN pc' = "retriever" ELSE pc' = "END"]_vars

(* A retry taken because the payload did not decode. *)
C7_Witness ==
  /\ pc = "retriever"
  /\ PayloadUndecodable
  /\ state.retry_count = 2

(***************************************************************************)
(* C8: after the router the query type is one of the four; it is the       *)
(* returned label trimmed and upper-cased when that is one of the four and *)
(* EXPLAIN for any other label, and the run goes on to the retriever.      *)
(***************************************************************************)
C8_IntentClosedSet ==
  /\ Len(trace) >= 1 => state.query_type \in {LOOKUP, COMPARE, CHECKLIST, EXPLAIN}
  /\ response.node = "router" =>
       /\ Upper(Strip(response.label)) \in {LOOKUP, COMPARE, CHECKLIST, EXPLAIN}
            => state.query_type = Upper(Strip(response.label))
       /\ Upper(Strip(response.label)) \notin {LOOKUP, COMPARE, CHECKLIST, EXPLAIN}
            => state.query_type = EXPLAIN
       /\ response.label = <<"c","o","m","p","a","r","e">>
            => state.query_type = COMPARE
       /\ response.label = <<" ","C","h","e","c","k","l","i","s","t","\n">>
            => state.query_type = CHECKLIST
       /\ response.label \in { <<"M","A","Y","B","E">>, <<>>,
                               <<"L","O","O","K","U","P",".">> }
            => state.query_type = EXPLAIN
       /\ failure # "should_retry"
       /\ Len(trace) >= 1

(* The router has just absorbed an unrecognized label. *)
C8_Witness ==
  /\ pc = "retriever"
  /\ response.node = "router"
  /\ response.label = <<"M","A","Y","B","E">>
  /\ state.query_type = EXPLAIN

(***************************************************************************)
(* C9: the primary searches of a retriever pass are: LOOKUP with one       *)
(* regulation, one search with k=5 filtered to it; COMPARE with n >= 2     *)
(* regulations, one filtered search per regulation with k = max(5, 10 div  *)
(* n); COMPARE with fewer than 2, one unfiltered search with k=10; every   *)
(* other case, one unfiltered search with k=7.                             *)
(***************************************************************************)
C9_PrimarySearches ==
  Executions("retriever") >= 1 =>
    LET qt == state.query_type
        regs == state.target_regulations
        n == Len(regs)
        calls == searches.primary
    IN /\ qt = LOOKUP /\ n = 1 =>
            calls = << [query |-> state.query, k |-> 5, filter |-> regs[1]] >>
       /\ qt = COMPARE /\ n >= 2 =>
            /\ Len(calls) = n
            /\ \A i \in 1..n :
                 calls[i] = [query |-> state.query,
                             k |-> IF 10 \div n > 5 THEN 10 \div n ELSE 5,
                             filter |-> regs[i]]
       /\ qt = COMPARE /\ n < 2 =>
            calls = << [query |-> state.query, k |-> 10, filter |-> "None"] >>
       /\ ~(qt = LOOKUP /\ n = 1) /\ qt # COMPARE =>
            calls = << [query |-> state.query, k |-> 7, filter |-> "None"] >>

(* A COMPARE pass over three detected regulations has run. *)
C9_Witness ==
  /\ pc = "synthesizer"
  /\ state.query_type = COMPARE
  /\ Len(state.target_regulations) = 3
  /\ Len(searches.primary) = 3

(***************************************************************************)
(* C10: a pass issues the widening search (unfiltered, k=10) if and only   *)
(* if retry_count was above 0 at entry and the primary searches returned   *)
(* fewer than 3 passages; it issues it at most once, never on the first    *)
(* pass, and then stores exactly its results.                              *)
(***************************************************************************)
C10_WideningRule ==
  LET widened == searches.retry # <<>>
  IN /\ widened <=> (searches.entry > 0 /\ Len(searches.primary_results) < 3)
     /\ Len(searches.retry) <= 1
     /\ searches.entry = 0 => ~widened
     /\ widened =>
          /\ searches.retry =
               << [query |-> state.query, k |-> 10, filter |-> "None"] >>
          /\ state.retrieved_docs =
               SubSeq(store, 1, IF Len(store) < 10 THEN Len(store) ELSE 10)

(* A retry widened away from primary results that were not empty. *)
C10_Witness ==
  /\ pc = "synthesizer"
  /\ searches.retry # <<>>
  /\ searches.primary_results # <<>>
  /\ Len(state.retrieved_docs) >= 3
  /\ state.retrieved_docs[1] # searches.primary_results[1]

(***************************************************************************)
(* detect_regulations called on its own, over questions made of two        *)
(* fragments (keyword variants in lower and upper case, near misses, other *)
(* words) and over the questions of tests/test_agents.py.                  *)
(***************************************************************************)
QueryFragments ==
  { <<"s","r"," ","1","1","-","7">>,
    <<"s","r","1","1","-","7">>,
    <<"s","r","1","1","0","7">>,
    <<"s","r"," ","1","1","0","7">>,
    <<"n","i","s","t">>,
    <<"a","i"," ","r","m","f">>,
    <<"a","i"," ","1","0","0","-","1">>,
    <<"a","i","1","0","0">>,
    <<"i","s","o"," ","4","2","0","0","1">>,
    <<"i","s","o","4","2","0","0","1">>,
    <<"n","a","i","c">>,
    <<"m","o","d","e","l"," ","b","u","l","l","e","t","i","n">>,
    <<"c","o","l","o","r","a","d","o">>,
    <<"s","b","2","1","-","1","6","9">>,
    <<"s","b"," ","2","1","-","1","6","9">>,
    <<"s","b","2","1","1","6","9">>,
    <<"S","R"," ","1","1","-","7">>,
    <<"S","R","1","1","-","7">>,
    <<"S","R","1","1","0","7">>,
    <<"S","R"," ","1","1","0","7">>,
    <<"N","I","S","T">>,
    <<"A","I"," ","R","M","F">>,
    <<"A","I"," ","1","0","0","-","1">>,
    <<"A","I","1","0","0">>,
    <<"I","S","O"," ","4","2","0","0","1">>,
    <<"I","S","O","4","2","0","0","1">>,
    <<"N","A","I","C">>,
    <<"M","O","D","E","L"," ","B","U","L","L","E","T","I","N">>,
    <<"C","O","L","O","R","A","D","O">>,
    <<"S","B","2","1","-","1","6","9">>,
    <<"S","B"," ","2","1","-","1","6","9">>,
    <<"S","B","2","1","1","6","9">>,
    <<"N","i","s","t">>,
    <<"C","o","l","o","r","a","d","o">>,
    <<"r","i","s","k">>,
    <<"A","d","m","i","n","i","s","t","e","r">>,
    <<"s","r"," ","1","1">>,
    <<"i","s","o"," ","4","2","0","0">>,
    <<"m","o","d","e","l">>,
    <<"s","b","2","1">>,
    <<>> }

Separators == { <<>>, <<" ">>, <<" ","a","n","d"," ">> }

TestQueries ==
  { <<"W","h","a","t"," ","d","o","e","s"," ","S","R"," ","1","1","-","7"," ","s","a","y","?">>,
    <<"S","R","1","1","-","7"," ","r","e","q","u","i","r","e","m","e","n","t","s">>,
    <<"C","o","m","p","a","r","e"," ","S","R"," ","1","1","-","7"," ","a","n","d"," ","N","I","S","T"," ","f","r","a","m","e","w","o","r","k","s">>,
    <<"W","h","a","t"," ","i","s"," ","m","o","d","e","l"," ","r","i","s","k","?">>,
    <<"N","A","I","C"," ","m","o","d","e","l"," ","b","u","l","l","e","t","i","n"," ","o","n"," ","A","I">>,
    <<"C","o","l","o","r","a","d","o"," ","S","B","2","1","-","1","6","9"," ","i","n","s","u","r","a","n","c","e"," ","r","u","l","e","s">> }

DetectQueries ==
  { a \o sep \o b : a \in QueryFragments, sep \in Separators,
                    b \in QueryFragments }
  \cup TestQueries

(* Everything of the pipeline at rest. *)
PipelineIdle ==
  /\ state = initial_state(<<>>)
  /\ store = <<>>
  /\ response = NoResponse
  /\ searches = NoSearches
  /\ trace = <<>>
  /\ failure = "none"
  /\ result = NoResult
  /\ request = Body({}, <<>>)
  /\ http_status = Pending
  /\ runs = NoRuns
  /\ llm = NoLlm
  /\ prompts = NoPrompts

DetectInit ==
  /\ PipelineIdle
  /\ pc = "call"
  /\ \E q \in DetectQueries :
       call = [NoCall EXCEPT !.fn = "detect_regulations", !.arg = q]

DetectCall ==
  /\ pc = "call"
  /\ call.fn = "detect_regulations"
  /\ call' = [call EXCEPT !.ret = detect_regulations(call.arg)]
  /\ pc' = "returned"
  /\ UNCHANGED <<state, store, response, searches, trace, failure, result,
                 request, http_status, runs, llm, prompts>>

DetectNext == DetectCall

DetectSpec == DetectInit /\ [][DetectNext]_vars

(* Position of a regulation in the catalog. *)
CatalogIndex(reg) ==
  CHOOSE i \in 1..Len(KNOWN_REGULATIONS) : KNOWN_REGULATIONS[i] = reg

(* kw occurs in q at position i when case is ignored. *)
OccursAt(q, kw, i) ==
  /\ i + Len(kw) - 1 <= Len(q)
  /\ \A j \in 1..Len(kw) : LowerChar(q[i + j - 1]) = kw[j]

(* Some keyword variant of the catalog entry e occurs in q. *)
Mentions(q, e) ==
  \E v \in 1..Len(patterns[e].keywords) :
    \E i \in 1..Len(q) : OccursAt(q, patterns[e].keywords[v], i)

Detected == call.fn = "detect_regulations" /\ pc = "returned"

(***************************************************************************)
(* C11: detect_regulations returns exactly the catalog regulations of      *)
(* which a keyword variant occurs in the lower-cased query, each once and  *)
(* in catalog order: one for variants of one regulation, both in catalog   *)
(* order for two, none when no variant occurs.                             *)
(***************************************************************************)
C11_DetectionExact ==
  Detected =>
    LET q == call.arg
        found == call.ret
        mentioned == { e \in 1..Len(patterns) : Mentions(q, e) }
    IN /\ \A i \in 1..Len(found) : found[i] \in
            { KNOWN_REGULATIONS[e] : e \in 1..Len(KNOWN_REGULATIONS) }
       /\ \A i, j \in 1..Len(found) :
            i < j => CatalogIndex(found[i]) < CatalogIndex(found[j])
       /\ { found[i] : i \in 1..Len(found) }
            = { patterns[e].regulation : e \in mentioned }
       /\ Len(found) = Cardinality(mentioned)
       /\ q = <<"S","R","1","1","-","7"," ","r","e","q","u","i","r","e","m","e","n","t","s">>
            => found = << "SR 11-7" >>
       /\ q = <<"N","I","S","T"," ","a","n","d"," ","s","r"," ","1","1","0","7">>
            => found = << "SR 11-7", "NIST AI RMF" >>
       /\ q = <<"W","h","a","t"," ","i","s"," ","m","o","d","e","l"," ","r","i","s","k","?">>
            => found = <<>>

(* Two regulations named in the reverse of catalog order, in upper case. *)
C11_Witness ==
  /\ Detected
  /\ call.arg = <<"C","O","L","O","R","A","D","O"," ","a","n","d"," ","I","S","O","4","2","0","0","1">>
  /\ call.ret = << "ISO 42001", "Colorado SB21-169" >>

(***************************************************************************)
(* main.py: the POST /api/ask endpoint around one run.  The body is        *)
(* validated against QueryRequest before ask() is entered; an exception    *)
(* out of ask_question becomes a server error.                             *)
(***************************************************************************)
UnprocessableEntity == 422

InternalServerError == 500

Ok == 200

(* Variant: question is declared optional. *)
ValidRequestOptionalQuestion(body) == TRUE

(* class QueryRequest(BaseModel): question: str *)
ValidRequest(body) == "question" \in body.keys

Requests ==
  { Body({"question"}, q) : q \in Queries }
  \cup { Body({}, <<>>), Body({"wrong_field"}, <<"r","i","s","k">>) }

ApiInit ==
  /\ request \in Requests
  /\ http_status = Pending
  /\ pc = "ask"
  /\ state = initial_state(<<>>)
  /\ store \in Indexes
  /\ response = NoResponse
  /\ searches = NoSearches
  /\ trace = <<>>
  /\ failure = "none"
  /\ result = NoResult
  /\ call = NoCall
  /\ prompts = NoPrompts
  /\ runs = NoRuns
  /\ llm = NoLlm

(* The body validates: ask() calls ask_question(request.question), which *)
(* builds the initial state and invokes the graph.                       *)
AskStartsRun ==
  /\ pc = "ask"
  /\ ValidRequest(request)
  /\ state' = initial_state(request.question)
  /\ pc' = "router"
  /\ UNCHANGED <<store, response, searches, trace, failure, result, outside,
                 prompts>>

(* The body does not validate: the framework answers 422, ask() is not *)
(* entered.                                                            *)
AskRejects ==
  /\ pc = "ask"
  /\ ~ValidRequest(request)
  /\ http_status' = UnprocessableEntity
  /\ pc' = "REJECTED"
  /\ UNCHANGED <<state, store, response, searches, trace, failure, result,
                 request, call, runs, llm, prompts>>

(* ask() returns the result as a QueryResponse. *)
AskResponds ==
  /\ pc = "RETURNED"
  /\ http_status' = Ok
  /\ pc' = "RESPONDED"
  /\ UNCHANGED <<state, store, response, searches, trace, failure, result,
                 request, call, runs, llm, prompts>>

(* The exception of the run leaves ask(): the framework answers 500. *)
AskRaises ==
  /\ pc = "FAILED"
  /\ http_status' = InternalServerError
  /\ pc' = "ERRORED"
  /\ UNCHANGED <<state, store, response, searches, trace, failure, result,
                 request, call, runs, llm, prompts>>

ApiNext ==
  \/ AskStartsRun
  \/ AskRejects
  \/ Next
  \/ AskResponds
  \/ AskRaises

ApiSpec == ApiInit /\ [][ApiNext]_vars

(***************************************************************************)
(* C12: when a capability call fails in any node of any pass the run ends  *)
(* as a failure: no node runs after it, nothing is packaged or returned,   *)
(* and the caller gets a server error, not a result.                       *)
(***************************************************************************)
C12_CapabilityFailureIsTerminal ==
  /\ [](failure = "capability" =>
          /\ pc \in {"FAILED", "ERRORED"}
          /\ result = NoResult
          /\ http_status \in {Pending, 500})
  /\ [][failure = "capability" =>
          /\ trace' = trace
          /\ state' = state
          /\ result' = result
          /\ failure' = failure]_vars

(* The synthesizer's model call failed in the second pass. *)
C12_Witness ==
  /\ pc = "ERRORED"
  /\ failure = "capability"
  /\ Len(trace) = 5
  /\ http_status = 500

(***************************************************************************)
(* C13: a request whose body lacks the question field is answered 422 and  *)
(* no run is started for it: no node runs and no capability is called.     *)
(***************************************************************************)
C13_MalformedRequestRejected ==
  "question" \notin request.keys =>
    /\ pc \in {"ask", "REJECTED"}
    /\ pc = "REJECTED" <=> http_status = 422
    /\ http_status \in {Pending, 422}
    /\ state = initial_state(<<>>)
    /\ trace = <<>>
    /\ response = NoResponse
    /\ searches = NoSearches
    /\ result = NoResult

(* {"wrong_field": ...} has been refused. *)
C13_Witness ==
  /\ pc = "REJECTED"
  /\ request.keys = {"wrong_field"}
  /\ http_status = 422

(***************************************************************************)
(* Two requests served concurrently (the endpoint is a plain def, so each  *)
(* request runs ask_question on a thread of its own).  Every thread has    *)
(* its own AgentState; the compiled graph and the vector store are only    *)
(* read; the module globals _llm are set by the first get_llm of a module. *)
(* What the capabilities answer to a run is fixed by its script, so that   *)
(* the same run can be replayed alone.                                     *)
(***************************************************************************)
RunIds == {1, 2}

Script(q, label, answer, payloads) ==
  [query |-> q, label |-> label, answer |-> answer, payloads |-> payloads]

ConcScripts ==
  { Script(<<"S","R","1","1","-","7">>, LOOKUP, "answer A",
           << << JsonLine(GoodDoc) >>, << Junk >>, << Junk >> >>),
    Script(<<"s","r"," ","1","1","-","7"," ","v"," ","N","I","S","T">>,
           <<"c","o","m","p","a","r","e">>, "answer B",
           << << Junk >>, << Fence, JsonLine(LowDoc), Fence >>,
              << JsonLine(GoodDoc) >> >>),
    Script(<<"r","i","s","k">>, <<"M","A","Y","B","E">>, "answer A",
           << << JsonLine(LowDoc) >>, << JsonLine(JList) >>, << Junk >> >>) }

ConcStores == { MakeIndex(MaxIndex, <<"NIST AI RMF", "SR 11-7">>) }

NewRun(sc) ==
  [script |-> sc, node |-> "start", at |-> "-",
   state |-> initial_state(<<>>), saw_none |-> FALSE, client |-> 0,
   result |-> NoResult]

ConcInit ==
  /\ runs \in [RunIds -> { NewRun(sc) : sc \in ConcScripts }]
  /\ llm = NoLlm
  /\ store \in ConcStores
  /\ pc = "threads"
  /\ state = initial_state(<<>>)
  /\ response = NoResponse
  /\ searches = NoSearches
  /\ trace = <<>>
  /\ failure = "none"
  /\ result = NoResult
  /\ request = Body({}, <<>>)
  /\ http_status = Pending
  /\ call = NoCall
  /\ prompts = NoPrompts

single == <<state, store, pc, response, searches, trace, failure, result,
            request, http_status, call, prompts>>

(* The first thing a node with a chat model does is get_llm(). *)
EnterNode(n) == IF n \in Components THEN "test" ELSE "invoke"

(* Variant: the state dict is a module global, so starting a run resets *)
(* the state of every run.                                              *)
ConcStartSharedState(r) ==
  /\ runs[r].node = "start"
  /\ runs' = [x \in RunIds |->
                IF x = r
                THEN [runs[x] EXCEPT
                        !.state = initial_state(runs[r].script.query),
                        !.node = "router", !.at = EnterNode("router")]
                ELSE [runs[x] EXCEPT
                        !.state = initial_state(runs[r].script.query)]]
  /\ UNCHANGED <<llm, single>>

(* ask_question builds the initial state and invokes the graph. *)
ConcStart(r) ==
  /\ runs[r].node = "start"
  /\ runs' = [runs EXCEPT ![r].state = initial_state(runs[r].script.query),
                          ![r].node = "router",
                          ![r].at = EnterNode("router")]
  /\ UNCHANGED <<llm, single>>

(* get_llm: if _llm is None *)
ConcGetLlmTest(r) ==
  /\ runs[r].at = "test"
  /\ LET none == llm[runs[r].node].client = 0
     IN runs' = [runs EXCEPT ![r].saw_none = none,
                             ![r].at = IF none THEN "construct" ELSE "return"]
  /\ UNCHANGED <<llm, single>>

(* get_llm: _llm = ChatOpenAI(...); the new client is named after the run. *)
ConcGetLlmConstruct(r) ==
  /\ runs[r].at = "construct"
  /\ llm' = [llm EXCEPT ![runs[r].node].client = r,
                        ![runs[r].node].constructed = @ + 1]
  /\ runs' = [runs EXCEPT ![r].at = "return"]
  /\ UNCHANGED single

(* get_llm: return _llm *)
ConcGetLlmReturn(r) ==
  /\ runs[r].at = "return"
  /\ runs' = [runs EXCEPT ![r].client = llm[runs[r].node].client,
                          ![r].at = "invoke"]
  /\ UNCHANGED <<llm, single>>

ConcRouter(r) ==
  /\ runs[r].node = "router" /\ runs[r].at = "invoke"
  /\ runs' = [runs EXCEPT
                ![r].state = router_agent(runs[r].state, runs[r].script.label),
                ![r].node = "retriever",
                ![r].at = EnterNode("retriever")]
  /\ UNCHANGED <<llm, single>>

ConcRetriever(r) ==
  /\ runs[r].node = "retriever" /\ runs[r].at = "invoke"
  /\ runs' = [runs EXCEPT
                ![r].state = retriever_agent(runs[r].state, store),
                ![r].node = "synthesizer",
                ![r].at = EnterNode("synthesizer")]
  /\ UNCHANGED <<llm, single>>

ConcSynthesizer(r) ==
  /\ runs[r].node = "synthesizer" /\ runs[r].at = "invoke"
  /\ runs' = [runs EXCEPT
                ![r].state = synthesizer_agent(runs[r].state,
                                               runs[r].script.answer),
                ![r].node = "compliance_checker",
                ![r].at = EnterNode("compliance_checker")]
  /\ UNCHANGED <<llm, single>>

(* The payload of a pass is the one the script holds for it. *)
ConcComplianceChecker(r) ==
  /\ runs[r].node = "compliance_checker" /\ runs[r].at = "invoke"
  /\ runs' = [runs EXCEPT
                ![r].state = compliance_checker_agent(
                               runs[r].state,
                               runs[r].script.payloads[runs[r].state.retry_count]),
                ![r].node = "should_retry",
                ![r].at = "invoke"]
  /\ UNCHANGED <<llm, single>>

ConcShouldRetry(r) ==
  /\ runs[r].node = "should_retry"
  /\ LET decision == should_retry(runs[r].state)
         next == IF decision = "raise" THEN "FAILED"
                 ELSE EdgeAfterChecker(decision)
     IN runs' = [runs EXCEPT ![r].node = next, ![r].at = EnterNode(next)]
  /\ UNCHANGED <<llm, single>>

ConcReturn(r) ==
  /\ runs[r].node = "END"
  /\ runs' = [runs EXCEPT ![r].result = Response(runs[r].state),
                          ![r].node = "RETURNED", ![r].at = "-"]
  /\ UNCHANGED <<llm, single>>

ConcNext ==
  \E r \in RunIds :
    \/ ConcStart(r)
    \/ ConcGetLlmTest(r)
    \/ ConcGetLlmConstruct(r)
    \/ ConcGetLlmReturn(r)
    \/ ConcRouter(r)
    \/ ConcRetriever(r)
    \/ ConcSynthesizer(r)
    \/ ConcComplianceChecker(r)
    \/ ConcShouldRetry(r)
    \/ ConcReturn(r)

ConcSpec == ConcInit /\ [][ConcNext]_vars

(* The run of a script with no other run around: the nodes applied in *)
(* graph order to a fresh state.                                      *)
RECURSIVE AlonePass(_, _, _)
AlonePass(st, sc, vs) ==
  LET a == retriever_agent(st, vs)
      b == synthesizer_agent(a, sc.answer)
      c == compliance_checker_agent(b, sc.payloads[a.retry_count])
      decision == should_retry(c)
  IN IF decision = "retry" THEN AlonePass(c, sc, vs)
     ELSE IF decision = "end" THEN [node |-> "RETURNED", result |-> Response(c)]
     ELSE [node |-> "FAILED", result |-> NoResult]

RunAlone(sc, vs) ==
  AlonePass(router_agent(initial_state(sc.query), sc.label), sc, vs)

(* A step taken by one run that leaves the record of every other run as *)
(* it was.                                                              *)
OnlyOwnRecord(r) == \A x \in RunIds \ {r} : runs'[x] = runs[x]

(* What a run holds matches the same script run alone. *)
AsAlone(r) ==
  LET alone == RunAlone(runs[r].script, store)
  IN /\ runs[r].node = "RETURNED" =>
          alone.node = "RETURNED" /\ runs[r].result = alone.result
     /\ runs[r].node = "FAILED" => alone.node = "FAILED"

(* A run about to enter the router holds a fresh state. *)
StartsFresh(r) ==
  runs[r].node = "router" =>
    /\ runs[r].state.query = runs[r].script.query
    /\ runs[r].state.retry_count = 0
    /\ runs[r].state.query_type = <<>>
    /\ runs[r].state.target_regulations = <<>>
    /\ runs[r].state.retrieved_docs = <<>>
    /\ runs[r].state.answer = ""
    /\ runs[r].state.verification = EmptyDict

C15_ResultPackaging ==
  /\ [](pc = "RETURNED" =>
          /\ result.answer = state.answer
          /\ result.query_type = state.query_type
          /\ result.verification = state.verification
          /\ Len(result.sources) = Len(state.retrieved_docs)
          /\ \A i \in 1..Len(state.retrieved_docs) :
               LET doc == state.retrieved_docs[i]
                   src == result.sources[i]
               IN /\ src.regulation = doc.regulation
                  /\ src.page = doc.page
                  /\ src.content.chunk = doc.page_content.chunk
                  /\ src.content.length =
                       IF doc.page_content.length > 300 THEN 300
                       ELSE doc.page_content.length
                  /\ \E j \in 1..Len(store) : store[j] = doc)
  /\ [][pc = "END" => state' = state]_vars

(* A result over passages both shorter and longer than the preview. *)
C15_Witness ==
  /\ pc = "RETURNED"
  /\ \E i \in 1..Len(state.retrieved_docs) :
       /\ state.retrieved_docs[i].page_content.length = 800
       /\ result.sources[i].content.length = 300
  /\ \E i \in 1..Len(state.retrieved_docs) :
       /\ state.retrieved_docs[i].page_content.length = 120
       /\ result.sources[i].content.length = 120

(* A verification was stored by the checker and holds claims and a number *)
(* as confidence.                                                         *)
StoredWithNumber ==
  /\ Executions("compliance_checker") >= 1
  /\ state.verification.type = "dict"
  /\ {"claims", "confidence"} \subseteq state.verification.keys
  /\ state.verification.confidence.type = "number"

AllClaims(status) ==
  \A i \in 1..Len(state.verification.claims) :
    state.verification.claims[i].status = status

(***************************************************************************)
(* C16 (as claimed): in every verification stored, the confidence is 1.0   *)
(* only when every claim is SUPPORTED, 0.0 only when every claim is        *)
(* UNSUPPORTED, and strictly between for mixed claims.  (That it grows     *)
(* with the share of SUPPORTED claims compares two results; the three      *)
(* conditions on one result are stated here.)                              *)
(***************************************************************************)
C16_ConfidenceMatchesClaims ==
  StoredWithNumber =>
    LET confidence == state.verification.confidence.value
    IN /\ confidence = 100 => AllClaims("SUPPORTED")
       /\ confidence = 0 => AllClaims("UNSUPPORTED")
       /\ ~AllClaims("SUPPORTED") /\ ~AllClaims("UNSUPPORTED")
            => 0 < confidence /\ confidence < 100

(***************************************************************************)
(* C17 (as claimed): the confidence number of every verification stored,   *)
(* and the confidence returned at END, lies between 0.0 and 1.0.           *)
(***************************************************************************)
C17_ConfidenceInUnitRange ==
  /\ StoredWithNumber =>
       /\ 0 <= state.verification.confidence.value
       /\ state.verification.confidence.value <= 100
  /\ pc = "RETURNED" =>
       /\ result.confidence.type = "number"
       /\ 0 <= result.confidence.value
       /\ result.confidence.value <= 100

(***************************************************************************)
(* C18: a verification without a confidence value passes the gate as if    *)
(* its confidence were 1.0: the graph goes to END whatever retry_count is. *)
(***************************************************************************)
C18_MissingConfidenceEnds ==
  [][(/\ pc = "should_retry"
      /\ state.verification.type = "dict"
      /\ "confidence" \notin state.verification.keys)
     => pc' = "END"]_vars

(* The gate let a verification without confidence through on a retry. *)
C18_Witness ==
  /\ pc = "END"
  /\ state.verification.type = "dict"
  /\ "confidence" \notin state.verification.keys
  /\ state.retry_count = 2

(* Position of a passage in the store, its similarity rank. *)
Rank(doc) == CHOOSE j \in 1..Len(store) : store[j] = doc

(* Position of a regulation among the detected ones. *)
DetectionIndex(reg) ==
  CHOOSE i \in 1..Len(state.target_regulations) :
    state.target_regulations[i] = reg

(* The pass stored the results of a COMPARE fan-out, not widened. *)
FannedOut ==
  /\ Executions("retriever") >= 1
  /\ state.query_type = COMPARE
  /\ Len(state.target_regulations) >= 2
  /\ searches.retry = <<>>

(***************************************************************************)
(* C19: for COMPARE with two or more regulations, a pass that does not     *)
(* widen stores the per-regulation results one after the other in          *)
(* detection order, each regulation's passages in rank order.              *)
(***************************************************************************)
C19_FanOutConcatenation ==
  FannedOut =>
    LET docs == state.retrieved_docs
        regs == { state.target_regulations[i] :
                    i \in 1..Len(state.target_regulations) }
        among(j) == Cardinality({ m \in 1..j :
                                    store[m].regulation = store[j].regulation })
    IN /\ \A i, j \in 1..Len(docs) :
            i < j =>
              \/ DetectionIndex(docs[i].regulation)
                   < DetectionIndex(docs[j].regulation)
              \/ /\ docs[i].regulation = docs[j].regulation
                 /\ Rank(docs[i]) < Rank(docs[j])
       /\ { docs[i] : i \in 1..Len(docs) }
            = { store[j] : j \in { m \in 1..Len(store) :
                                     /\ store[m].regulation \in regs
                                     /\ among(m) <= 5 } }

(* Five passages of the first regulation, then five of the second, which *)
(* ranks higher in the store.                                            *)
C19_Witness ==
  /\ pc = "synthesizer"
  /\ FannedOut
  /\ Len(state.retrieved_docs) = 10
  /\ state.retrieved_docs[1].page > state.retrieved_docs[6].page
  /\ state.retrieved_docs[5].regulation # state.retrieved_docs[6].regulation

(***************************************************************************)
(* parse_verification_response called on its own, on a payload and on the  *)
(* same payload between an opening and a closing fence line.               *)
(***************************************************************************)
Wrapped(p) == << Fence >> \o p \o << Fence >>

PayloadBodies == { << JsonLine(d) >> : d \in JsonDocs } \cup { << Junk >> }

ParsePayloads ==
  { lead \o inner \o trail :
      lead \in { <<>>, << Blank >> },
      trail \in { <<>>, << Blank >> },
      inner \in PayloadBodies \cup { Wrapped(b) : b \in PayloadBodies }
                  \cup { Wrapped(Wrapped(b)) : b \in PayloadBodies } }

ParseInit ==
  /\ PipelineIdle
  /\ pc = "call"
  /\ \E p \in ParsePayloads :
       call = [NoCall EXCEPT !.fn = "parse_verification_response", !.arg = p]

ParseCall ==
  /\ pc = "call"
  /\ call.fn = "parse_verification_response"
  /\ call' = [call EXCEPT
                !.ret = parse_verification_response(call.arg),
                !.ret2 = parse_verification_response(Wrapped(call.arg))]
  /\ pc' = "returned"
  /\ UNCHANGED <<state, store, response, searches, trace, failure, result,
                 request, http_status, runs, llm, prompts>>

ParseNext == ParseCall

ParseSpec == ParseInit /\ [][ParseNext]_vars

Parsed == call.fn = "parse_verification_response" /\ pc = "returned"

(* The parser decoded the payload: it did not fall back to the default. *)
DecodesOnItsOwn(p) == JsonLoadable(Unwrapped(p))

(***************************************************************************)
(* C20 (as claimed): for every payload that decodes on its own, the same   *)
(* payload between an opening and a closing fence line decodes to the same *)
(* verification result.                                                    *)
(***************************************************************************)
C20_FenceTransparent ==
  Parsed /\ DecodesOnItsOwn(call.arg) => call.ret2 = call.ret

(***************************************************************************)
(* C20 (amended): for every payload that json.loads decodes as it is (so   *)
(* not itself wrapped in fences), the same payload between an opening and  *)
(* a closing fence line decodes to the same verification result.           *)
(***************************************************************************)
C20_FenceTransparentOnBareJson ==
  Parsed =>
    LET lines == { i \in 1..Len(call.arg) : call.arg[i].kind # "blank" }
    IN (Cardinality(lines) = 1
        /\ \A i \in lines : call.arg[i].kind = "json")
       => /\ call.ret2 = call.ret
          /\ \A i \in lines : call.ret = call.arg[i].doc

(* A bare document between blank lines, decoded alike with and without *)
(* fences.                                                             *)
C20_Witness ==
  /\ Parsed
  /\ call.arg = << Blank, JsonLine(LowDoc), Blank >>
  /\ call.ret = LowDoc
  /\ call.ret2 = LowDoc

PassQueries == Queries \cup { <<"n","i","s","t">> }

PassStores == { MakeIndex(n, pat) : n \in {0, MaxIndex}, pat \in IndexPatterns }

PassStates ==
  { [router_agent(initial_state(q), label) EXCEPT !.retry_count = rc] :
      q \in PassQueries, label \in valid_types, rc \in 0..MaxRetryCount }

Passes == [st : PassStates, vs : PassStores]

PassInit ==
  /\ PipelineIdle
  /\ pc = "call"
  /\ \E p1 \in Passes, p2 \in Passes :
       call = [NoCall EXCEPT !.fn = "retriever_agent", !.arg = <<p1, p2>>]

PassCall ==
  /\ pc = "call"
  /\ call.fn = "retriever_agent"
  /\ call' = [call EXCEPT
                !.ret = PassCalls(call.arg[1].st, call.arg[1].vs),
                !.ret2 = PassCalls(call.arg[2].st, call.arg[2].vs)]
  /\ pc' = "returned"
  /\ UNCHANGED <<state, store, response, searches, trace, failure, result,
                 request, http_status, runs, llm, prompts>>

PassNext == PassCall

PassSpec == PassInit /\ [][PassNext]_vars

BothPassed == call.fn = "retriever_agent" /\ pc = "returned"

(* The two passes agree on intent, number of regulations and retry_count. *)
SameSelection ==
  /\ call.arg[1].st.query_type = call.arg[2].st.query_type
  /\ Len(call.arg[1].st.target_regulations)
       = Len(call.arg[2].st.target_regulations)
  /\ call.arg[1].st.retry_count = call.arg[2].st.retry_count

(* Number, k and filtering of a list of search calls. *)
Shapes(cs) ==
  [i \in 1..Len(cs) |-> [k |-> cs[i].k, filtered |-> cs[i].filter # None]]

(* The primary searches of the pass returned fewer than 3 passages. *)
FewPrimaryResults(p) ==
  Len(RunCalls(p.vs, PrimaryCalls(p.st.query, p.st.query_type,
                                  p.st.target_regulations))) < 3

(***************************************************************************)
(* C22 (as claimed): two passes that agree on intent, number of detected   *)
(* regulations and retry_count at entry issue the same search calls        *)
(* (number, k, filtered or not), whatever the index returns.               *)
(***************************************************************************)
C22_CallsFromSelectionAlone ==
  BothPassed /\ SameSelection => Shapes(call.ret) = Shapes(call.ret2)

(***************************************************************************)
(* C22 (amended): two passes that agree on intent, number of detected      *)
(* regulations and retry_count at entry issue the same search calls if     *)
(* they are first passes, or if the primary searches of both, or of        *)
(* neither, return fewer than 3 passages.                                  *)
(***************************************************************************)
C22_CallsFromSelectionAndResultCount ==
  BothPassed /\ SameSelection =>
    /\ call.arg[1].st.retry_count = 0 => Shapes(call.ret) = Shapes(call.ret2)
    /\ (FewPrimaryResults(call.arg[1]) <=> FewPrimaryResults(call.arg[2]))
         => Shapes(call.ret) = Shapes(call.ret2)

(* Two retries over different stores and different regulations, both     *)
(* widened after one filtered search.                                    *)
C22_Witness ==
  /\ BothPassed
  /\ SameSelection
  /\ call.arg[1].vs # call.arg[2].vs
  /\ call.arg[1].st.target_regulations # call.arg[2].st.target_regulations
  /\ call.arg[1].st.retry_count = 1
  /\ Len(call.ret) = 2
  /\ Shapes(call.ret) = Shapes(call.ret2)

C24_FieldsFromLastPass ==
  Done =>
    /\ prompts.synthesizer.pass = state.retry_count
    /\ prompts.synthesizer.context = state.retrieved_docs
    /\ prompts.synthesizer.stored = state.answer
    /\ prompts.compliance_checker.pass = state.retry_count
    /\ prompts.compliance_checker.sources = state.retrieved_docs
    /\ prompts.compliance_checker.answer = state.answer
    /\ prompts.compliance_checker.stored = state.verification
    /\ pc = "RETURNED" =>
         /\ result.answer = state.answer
         /\ result.verification = state.verification
         /\ Len(result.sources) = Len(state.retrieved_docs)

(* A run that ended after a widened retry: the passages of the last pass *)
(* differ from those of the first.                                       *)
C24_Witness ==
  /\ pc = "RETURNED"
  /\ state.retry_count = 2
  /\ searches.retry # <<>>
  /\ Len(state.retrieved_docs) > 3
  /\ prompts.synthesizer.context = state.retrieved_docs

(* The confidence should_retry compares with the threshold. *)
GateConfidence == DictGet(state.verification, "confidence", Num(100))

(***************************************************************************)
(* C25 (as claimed): the confidence returned to the caller is the value    *)
(* the retry gate used when it let the run end, for every verification the *)
(* checker can store, one without a confidence field included.             *)
(***************************************************************************)
C25_ReturnedConfidenceIsGateConfidence ==
  pc = "RETURNED" => result.confidence = GateConfidence

(***************************************************************************)
(* C26 (as claimed): a run that returns a confidence below 0.7 executed    *)
(* exactly 3 retriever passes; no such result is returned after one or two *)
(* passes.                                                                 *)
(***************************************************************************)
C26_LowConfidenceOnlyAfterThreePasses ==
  (/\ pc = "RETURNED"
   /\ result.confidence.type = "number"
   /\ result.confidence.value < ConfidenceThreshold)
  => Executions("retriever") = 3

(***************************************************************************)
(* C27 (as claimed): after every checker pass the verification in the      *)
(* state is a record with a claims list, a numeric confidence and a        *)
(* summary, whatever payload the chat model returned, and neither the      *)
(* retry gate nor the packaging of the result fails.                       *)
(***************************************************************************)
C27_VerificationStructured ==
  /\ Executions("compliance_checker") >= 1 =>
       /\ state.verification.type = "dict"
       /\ {"claims", "confidence", "summary"} \subseteq state.verification.keys
       /\ state.verification.confidence.type = "number"
  /\ failure # "should_retry"

C29_ClientConstructedOnce ==
  runs # NoRuns =>
    /\ \A c \in Components : llm[c].constructed <= 1
    /\ \A r1, r2 \in RunIds :
         (/\ runs[r1].node = runs[r2].node
          /\ runs[r1].node \in Components
          /\ runs[r1].at = "invoke"
          /\ runs[r2].at = "invoke")
         => runs[r1].client = runs[r2].client

====
